---- MODULE Spec2Model ----
(***************************************************************************)
(* Model of the foundry-agent service of azure-agents:                     *)
(*   - the Thread Directory THREADS with get_thread_id / set_thread_id     *)
(*     (src/foundry-agent/app/src/utils.py),                               *)
(*   - the message handler on_message (src/foundry-agent/app/src/main.py), *)
(*   - the tool registry assembly load_tools (utils.py).                   *)
(*                                                                         *)
(* Python values are modelled as follows.  None is the string NoneVal,     *)
(* which no identifier drawn in the model equals.  Text is a sequence of   *)
(* words, so that an f-string is a concatenation and "contains" is a       *)
(* search, not an identity.  A dict is a function whose DOMAIN is the set   *)
(* of its keys.                                                            *)
(***************************************************************************)
EXTENDS Integers, Sequences, FiniteSets, TLC

VARIABLES
    THREADS,          \* utils.THREADS: channel -> (conversation -> thread id)
    remote,           \* remote agent runtime: ids of the threads that exist
    created,          \* remote agent runtime: number of threads ever created
    messages,         \* remote agent runtime: thread id -> sequence of messages
    deleted,          \* number of remote threads deleted behind the service
    running,          \* event loop: the on_message coroutine now executing, 0 if none
    pc,               \* per on_message invocation: position in the coroutine
    channel_id,       \* local of on_message
    conversation_id,  \* local of on_message
    text,             \* context.activity.text
    thread_id,        \* local of on_message (result of get_thread_id)
    thread,           \* local of on_message (thread.id)
    run,              \* local of on_message (status and last_error of the run)
    response,         \* local of on_message
    error,            \* the exception that left on_message, NoneVal if none
    creates,          \* number of agent_client.threads.create() calls it made
    sent,             \* per invocation: the replies handed to context.send_activity
    call,             \* directory driver: the last directory call and its result
    prev,             \* directory driver: the call before the last one
    files,            \* tool directory: the files of the scanned directory
    loader            \* load_tools: its locals and position

vars == <<THREADS, remote, created, messages, deleted, running, pc, channel_id,
          conversation_id, text, thread_id, thread, run, response, error,
          creates, sent, call, prev, files, loader>>

serveVars == <<remote, created, messages, deleted, running, pc, channel_id,
               conversation_id, text, thread_id, thread, run, response, error,
               creates, sent>>
driverVars == <<call, prev>>
loadVars == <<files, loader>>

----------------------------------------------------------------------------
(* Bounds *)

MaxTurns == 2        \* on_message invocations
MaxDeletes == 1      \* remote deletions of a thread behind the service
MaxDirThreads == 2   \* thread ids the directory driver writes
MaxModules == 2      \* *.py files in the tool directory
MaxMcpFiles == 2     \* *.json files in the tool directory
MaxRecords == 2      \* records per *.json file

(* Python's None *)
NoneVal == "None"

Channels == {NoneVal, "unknown", "teams"}
Conversations == {"c1", "c2"}
TurnConversations == {"c1"}
Texts == {<<"hello">>}
AgentTexts == {<<"hi">>}
Errors == {<<"rate", "limited">>, <<"server_error">>}
Turns == 1..MaxTurns

(* The id of the n-th thread the remote runtime creates. *)
ThreadIdOf(n) == "thread_" \o ToString(n)

----------------------------------------------------------------------------
(* utils.py: the Thread Directory *)

Normalize(channel) == IF channel = NoneVal THEN "unknown" ELSE channel

(* faulty variant: the read path without the normalisation of a null channel *)
get_thread_id_NoNormalize(channel, conversation) ==
    IF channel \notin DOMAIN THREADS THEN NoneVal
    ELSE IF conversation \in DOMAIN THREADS[channel] THEN THREADS[channel][conversation]
    ELSE NoneVal

(* faulty variant: the conversation looked up among the channels *)
get_thread_id_WrongLevel(channel, conversation) ==
    IF conversation \notin DOMAIN THREADS THEN NoneVal
    ELSE IF conversation \in DOMAIN THREADS[conversation]
         THEN THREADS[conversation][conversation]
    ELSE NoneVal

get_thread_id(channel, conversation) ==
    LET ch == Normalize(channel) IN
    IF ch \notin DOMAIN THREADS THEN NoneVal
    ELSE IF conversation \in DOMAIN THREADS[ch] THEN THREADS[ch][conversation]
    ELSE NoneVal

(* faulty variant: the write path without the normalisation of a null channel *)
set_thread_id_NoNormalize(channel, conversation, tid) ==
    LET inner == IF channel \in DOMAIN THREADS THEN THREADS[channel] ELSE <<>>
        rest == [c \in (DOMAIN inner) \ {conversation} |-> inner[c]]
        others == [c \in (DOMAIN THREADS) \ {channel} |-> THREADS[c]]
    IN  (channel :> ((conversation :> tid) @@ rest)) @@ others

(* faulty variant: setdefault instead of assignment: an existing entry is kept *)
set_thread_id_KeepExisting(channel, conversation, tid) ==
    LET ch == Normalize(channel)
        inner == IF ch \in DOMAIN THREADS THEN THREADS[ch] ELSE <<>>
        others == [c \in (DOMAIN THREADS) \ {ch} |-> THREADS[c]]
    IN  (ch :> (inner @@ (conversation :> tid))) @@ others

set_thread_id(channel, conversation, tid) ==
    LET ch == Normalize(channel)
        inner == IF ch \in DOMAIN THREADS THEN THREADS[ch] ELSE <<>>
        rest == [c \in (DOMAIN inner) \ {conversation} |-> inner[c]]
        others == [c \in (DOMAIN THREADS) \ {ch} |-> THREADS[c]]
    IN  (ch :> ((conversation :> tid) @@ rest)) @@ others

(* The (channel, conversation) pairs the directory holds an entry for. *)
Entries == {<<ch, cv>> \in Channels \X Conversations :
              ch \in DOMAIN THREADS /\ cv \in DOMAIN THREADS[ch]}

----------------------------------------------------------------------------
(* main.py: on_message.  The coroutine is scheduled by the asyncio event   *)
(* loop of the process.  agent_client is the synchronous AgentsClient, so  *)
(* lines 50-73 contain no suspension point: the only await of the body is  *)
(* the final send_activity at line 74.  A coroutine that has begun keeps   *)
(* the loop until it reaches that await or raises.                         *)

(* faulty variant: a body that suspends at its remote calls, so that a     *)
(* message is dispatched whatever the other calls are doing                *)
LoopFree_Always == TRUE

LoopFree == running = 0

RunStatus == {"completed", "failed", "cancelled", "expired"}
NoRun == [status |-> NoneVal, last_error |-> <<>>]

Apology == <<"Sorry,", "something", "went", "wrong", "while", "processing",
             "your", "request.">>

(* faulty variant: the apology without the error detail *)
FailedResponse_NoDetail(last_error) == Apology

(* line 68: the f-string of the failed branch *)
FailedResponse(last_error) == Apology \o last_error

(* messages.get_last_message_text_by_role(thread_id, role): the newest      *)
(* message of that role, None when the thread has none.  The optional       *)
(* result is a sequence: <<>> for None, <<m>> for the message m found.      *)
LastMessageTextByRole(tid, role) ==
    LET ms == messages[tid]
        idx == {i \in 1..Len(ms) : ms[i].role = role}
    IN  IF idx = {} THEN <<>>
        ELSE <<ms[CHOOSE i \in idx : \A j \in idx : j <= i]>>

(* a local that holds text, before its assignment *)
Unbound == <<>>

(* An exception leaves on_message: the task ends, its frame (the locals)  *)
(* is gone and the loop is free again.                                     *)
Raise(h, exc) ==
    /\ pc' = [pc EXCEPT ![h] = "raised"]
    /\ error' = [error EXCEPT ![h] = exc]
    /\ running' = 0
    /\ thread_id' = [thread_id EXCEPT ![h] = NoneVal]
    /\ thread' = [thread EXCEPT ![h] = NoneVal]
    /\ run' = [run EXCEPT ![h] = NoRun]
    /\ response' = [response EXCEPT ![h] = Unbound]
    /\ creates' = [creates EXCEPT ![h] = 0]

(* lines 49-51: the adapter dispatches a message activity to on_message. *)
Begin(h) ==
    /\ pc[h] = "idle"
    /\ LoopFree
    /\ \A g \in Turns : g < h => pc[g] # "idle"
    /\ \E ch \in Channels, cv \in TurnConversations, tx \in Texts :
         /\ channel_id' = [channel_id EXCEPT ![h] = ch]
         /\ conversation_id' = [conversation_id EXCEPT ![h] = cv]
         /\ text' = [text EXCEPT ![h] = tx]
    /\ running' = h
    /\ pc' = [pc EXCEPT ![h] = "resolve"]
    /\ UNCHANGED <<THREADS, remote, created, messages, deleted, thread_id,
                   thread, run, response, error, creates, sent>>

(* lines 53-55: the directory lookup; an absent entry raises the           *)
(* HttpResponseError that the except clause of line 57 catches.            *)
Resolve(h) ==
    /\ running = h /\ pc[h] = "resolve"
    /\ thread_id' = [thread_id EXCEPT ![h] =
                        get_thread_id(channel_id[h], conversation_id[h])]
    /\ pc' = [pc EXCEPT ![h] = IF thread_id'[h] = NoneVal THEN "create"
                               ELSE "fetch"]
    /\ UNCHANGED <<THREADS, remote, created, messages, deleted, running,
                   channel_id, conversation_id, text, thread, run, response,
                   error, creates, sent>>

(* line 56: agent_client.threads.get.  It returns the thread when the      *)
(* thread exists and the call goes through; it raises HttpResponseError    *)
(* (not found, or any other error response), caught at line 57; or it      *)
(* raises an exception of another class, which leaves on_message.          *)
Fetch(h) ==
    /\ running = h /\ pc[h] = "fetch"
    /\ \/ /\ thread_id[h] \in remote
          /\ thread' = [thread EXCEPT ![h] = thread_id[h]]
          /\ pc' = [pc EXCEPT ![h] = "post"]
          /\ UNCHANGED <<error, running, thread_id, run, response, creates>>
       \/ /\ pc' = [pc EXCEPT ![h] = "create"]
          /\ UNCHANGED <<error, running, thread_id, thread, run, response,
                         creates>>
       \/ Raise(h, "ServiceRequestError")
    /\ UNCHANGED <<THREADS, remote, created, messages, deleted, channel_id,
                   conversation_id, text, sent>>

(* line 58: agent_client.threads.create(), inside the except clause: an    *)
(* exception it raises is not caught.                                      *)
Create(h) ==
    /\ running = h /\ pc[h] = "create"
    /\ \/ /\ created' = created + 1
          /\ remote' = remote \cup {ThreadIdOf(created')}
          /\ messages' = (ThreadIdOf(created') :> <<>>) @@ messages
          /\ thread' = [thread EXCEPT ![h] = ThreadIdOf(created')]
          /\ creates' = [creates EXCEPT ![h] = @ + 1]
          /\ pc' = [pc EXCEPT ![h] = "register"]
          /\ UNCHANGED <<error, running, thread_id, run, response>>
       \/ /\ Raise(h, "HttpResponseError")
          /\ UNCHANGED <<created, remote, messages>>
    /\ UNCHANGED <<THREADS, deleted, channel_id, conversation_id, text, sent>>

(* line 59: set_thread_id(channel_id, conversation_id, thread.id) *)
Register(h) ==
    /\ running = h /\ pc[h] = "register"
    /\ THREADS' = set_thread_id(channel_id[h], conversation_id[h], thread[h])
    /\ pc' = [pc EXCEPT ![h] = "post"]
    /\ UNCHANGED <<remote, created, messages, deleted, running, channel_id,
                   conversation_id, text, thread_id, thread, run, response,
                   error, creates, sent>>

(* lines 61-65: agent_client.messages.create(role=USER) *)
Post(h) ==
    /\ running = h /\ pc[h] = "post"
    /\ \/ /\ thread[h] \in remote
          /\ messages' = [messages EXCEPT ![thread[h]] =
                            Append(@, [role |-> "user", content |-> text[h]])]
          /\ pc' = [pc EXCEPT ![h] = "run"]
          /\ UNCHANGED <<error, running, thread_id, thread, run, response,
                         creates>>
       \/ /\ Raise(h, "HttpResponseError")
          /\ UNCHANGED messages
    /\ UNCHANGED <<THREADS, remote, created, deleted, channel_id,
                   conversation_id, text, sent>>

(* line 66: agent_client.runs.create_and_process blocks until the run      *)
(* leaves the queued / in_progress / requires_action states.  A completed  *)
(* run normally leaves an agent message on the thread.                     *)
Run(h) ==
    /\ running = h /\ pc[h] = "run"
    /\ \/ /\ thread[h] \in remote
          /\ \E st \in RunStatus :
               \/ /\ st = "failed"
                  /\ \E e \in Errors :
                       run' = [run EXCEPT ![h] = [status |-> st, last_error |-> e]]
                  /\ UNCHANGED messages
               \/ /\ st = "completed"
                  /\ run' = [run EXCEPT ![h] = [status |-> st, last_error |-> <<>>]]
                  /\ \/ \E a \in AgentTexts :
                          messages' = [messages EXCEPT ![thread[h]] =
                              Append(@, [role |-> "agent", content |-> a])]
                     \/ UNCHANGED messages
               \/ /\ st \notin {"failed", "completed"}
                  /\ run' = [run EXCEPT ![h] = [status |-> st, last_error |-> <<>>]]
                  /\ UNCHANGED messages
          /\ pc' = [pc EXCEPT ![h] = "extract"]
          /\ UNCHANGED <<error, running, thread_id, thread, response, creates>>
       \/ /\ Raise(h, "HttpResponseError")
          /\ UNCHANGED messages
    /\ UNCHANGED <<THREADS, remote, created, deleted, channel_id,
                   conversation_id, text, sent>>

(* lines 67-73: the reply.  response.text.value on a None result raises    *)
(* AttributeError.                                                         *)
Extract(h) ==
    /\ running = h /\ pc[h] = "extract"
    /\ IF run[h].status = "failed"
       THEN /\ response' = [response EXCEPT ![h] = FailedResponse(run[h].last_error)]
            /\ pc' = [pc EXCEPT ![h] = "send"]
            /\ UNCHANGED <<error, running, thread_id, thread, run, creates>>
       ELSE \/ /\ thread[h] \in remote
               /\ LastMessageTextByRole(thread[h], "agent") # <<>>
               /\ response' = [response EXCEPT ![h] =
                     LastMessageTextByRole(thread[h], "agent")[1].content]
               /\ pc' = [pc EXCEPT ![h] = "send"]
               /\ UNCHANGED <<error, running, thread_id, thread, run, creates>>
            \/ /\ thread[h] \in remote
               /\ LastMessageTextByRole(thread[h], "agent") = <<>>
               /\ Raise(h, "AttributeError")
            \/ Raise(h, "HttpResponseError")
    /\ UNCHANGED <<THREADS, remote, created, messages, deleted, channel_id,
                   conversation_id, text, sent>>

(* line 74: await context.send_activity(response): the reply is handed to  *)
(* the adapter and the coroutine suspends, freeing the loop.               *)
Send(h) ==
    /\ running = h /\ pc[h] = "send"
    /\ sent' = [sent EXCEPT ![h] = <<response[h]>>]
    /\ running' = 0
    /\ pc' = [pc EXCEPT ![h] = "awaiting"]
    /\ UNCHANGED <<THREADS, remote, created, messages, deleted, channel_id,
                   conversation_id, text, thread_id, thread, run, response,
                   error, creates>>

(* line 74: the await returns and on_message ends; its frame is gone. *)
Complete(h) ==
    /\ pc[h] = "awaiting"
    /\ LoopFree
    /\ pc' = [pc EXCEPT ![h] = "done"]
    /\ thread_id' = [thread_id EXCEPT ![h] = NoneVal]
    /\ thread' = [thread EXCEPT ![h] = NoneVal]
    /\ run' = [run EXCEPT ![h] = NoRun]
    /\ response' = [response EXCEPT ![h] = Unbound]
    /\ creates' = [creates EXCEPT ![h] = 0]
    /\ UNCHANGED <<THREADS, remote, created, messages, deleted, running,
                   channel_id, conversation_id, text, error, sent>>

(* The remote runtime owns the threads: one may be deleted at any time.    *)
DeleteRemote ==
    /\ deleted < MaxDeletes
    /\ \E t \in remote : remote' = remote \ {t}
    /\ deleted' = deleted + 1
    /\ UNCHANGED <<THREADS, created, messages, running, pc, channel_id,
                   conversation_id, text, thread_id, thread, run, response,
                   error, creates, sent>>

Init ==
    /\ THREADS = <<>>
    /\ remote = {}
    /\ created = 0
    /\ messages = <<>>
    /\ deleted = 0
    /\ running = 0
    /\ pc = [h \in Turns |-> "idle"]
    /\ channel_id = [h \in Turns |-> NoneVal]
    /\ conversation_id = [h \in Turns |-> NoneVal]
    /\ text = [h \in Turns |-> <<>>]
    /\ thread_id = [h \in Turns |-> NoneVal]
    /\ thread = [h \in Turns |-> NoneVal]
    /\ run = [h \in Turns |-> NoRun]
    /\ response = [h \in Turns |-> Unbound]
    /\ error = [h \in Turns |-> NoneVal]
    /\ creates = [h \in Turns |-> 0]
    /\ sent = [h \in Turns |-> <<>>]
    /\ call = NoneVal
    /\ prev = NoneVal
    /\ files = NoneVal
    /\ loader = NoneVal

Next ==
    \/ \E h \in Turns : Begin(h) /\ UNCHANGED <<driverVars, loadVars>>
    \/ \E h \in Turns : Resolve(h) /\ UNCHANGED <<driverVars, loadVars>>
    \/ \E h \in Turns : Fetch(h) /\ UNCHANGED <<driverVars, loadVars>>
    \/ \E h \in Turns : Create(h) /\ UNCHANGED <<driverVars, loadVars>>
    \/ \E h \in Turns : Register(h) /\ UNCHANGED <<driverVars, loadVars>>
    \/ \E h \in Turns : Post(h) /\ UNCHANGED <<driverVars, loadVars>>
    \/ \E h \in Turns : Run(h) /\ UNCHANGED <<driverVars, loadVars>>
    \/ \E h \in Turns : Extract(h) /\ UNCHANGED <<driverVars, loadVars>>
    \/ \E h \in Turns : Send(h) /\ UNCHANGED <<driverVars, loadVars>>
    \/ \E h \in Turns : Complete(h) /\ UNCHANGED <<driverVars, loadVars>>
    \/ DeleteRemote /\ UNCHANGED <<driverVars, loadVars>>

Spec == Init /\ [][Next]_vars

----------------------------------------------------------------------------
(* The Thread Directory driven directly: any sequence of set_thread_id /   *)
(* get_thread_id calls, with a null channel among the arguments.           *)

NoCall == [op |-> "none", channel |-> NoneVal, conversation |-> NoneVal,
           thread_id |-> NoneVal, result |-> NoneVal]

DirThreadIds == {ThreadIdOf(n) : n \in 1..MaxDirThreads}

SetThreadId(ch, cv, t) ==
    /\ THREADS' = set_thread_id(ch, cv, t)
    /\ call' = [op |-> "set", channel |-> ch, conversation |-> cv,
                thread_id |-> t, result |-> NoneVal]
    /\ prev' = call

GetThreadId(ch, cv) ==
    /\ call' = [op |-> "get", channel |-> ch, conversation |-> cv,
                thread_id |-> NoneVal, result |-> get_thread_id(ch, cv)]
    /\ prev' = call
    /\ UNCHANGED THREADS

InitDirectory ==
    /\ THREADS = <<>>
    /\ call = NoCall
    /\ prev = NoCall
    /\ remote = {} /\ created = 0 /\ messages = <<>> /\ deleted = 0
    /\ running = 0
    /\ pc = [h \in Turns |-> "idle"]
    /\ channel_id = [h \in Turns |-> NoneVal]
    /\ conversation_id = [h \in Turns |-> NoneVal]
    /\ text = [h \in Turns |-> <<>>]
    /\ thread_id = [h \in Turns |-> NoneVal]
    /\ thread = [h \in Turns |-> NoneVal]
    /\ run = [h \in Turns |-> NoRun]
    /\ response = [h \in Turns |-> Unbound]
    /\ error = [h \in Turns |-> NoneVal]
    /\ creates = [h \in Turns |-> 0]
    /\ sent = [h \in Turns |-> <<>>]
    /\ files = NoneVal
    /\ loader = NoneVal

NextDirectory ==
    \/ \E ch \in Channels, cv \in Conversations, t \in DirThreadIds :
          SetThreadId(ch, cv, t) /\ UNCHANGED <<serveVars, loadVars>>
    \/ \E ch \in Channels, cv \in Conversations :
          GetThreadId(ch, cv) /\ UNCHANGED <<serveVars, loadVars>>

SpecDirectory == InitDirectory /\ [][NextDirectory]_vars

(* C1: a get_thread_id that immediately follows a set_thread_id for the    *)
(* same pair returns the id written, where a null channel and the channel  *)
(* "unknown" name the same pair on the write and on the read path.         *)
C1_SetThenGet ==
    (/\ prev.op = "set" /\ call.op = "get"
     /\ prev.conversation = call.conversation
     /\ \/ prev.channel = call.channel
        \/ {prev.channel, call.channel} \subseteq {NoneVal, "unknown"})
    => call.result = prev.thread_id

C1_Witness ==
    /\ prev.op = "set" /\ prev.channel = NoneVal /\ prev.conversation = "c2"
    /\ call.op = "get" /\ call.channel = "unknown" /\ call.conversation = "c2"
    /\ call.result = prev.thread_id /\ call.result = ThreadIdOf(2)
    /\ Cardinality(Entries) = 3

----------------------------------------------------------------------------
(* utils.py: load_tools.  The scanned directory is                         *)
(*   files.tool_dir  "None" (no directory given), "missing" or "present",  *)
(*   files.modules   the *.py files in glob order; a module is its         *)
(*                   namespace after execution: attribute name -> object,  *)
(*   files.mcp       the *.json files in glob order; a file is its list of *)
(*                   records; a record is a dict of string fields.         *)
(* A callable is an object with an identity (oid), a __name__ and the      *)
(* _is_agent_tool marker set by agent_function_tool.  Two modules hold the *)
(* same object when both import it from a module they share; objects 1 and *)
(* 2 are two definitions of one name.                                      *)

Callables ==
    { [oid |-> 1, name |-> "get_weather", tagged |-> TRUE],
      [oid |-> 2, name |-> "get_weather", tagged |-> TRUE],
      [oid |-> 3, name |-> "get_time", tagged |-> TRUE],
      [oid |-> 4, name |-> "helper", tagged |-> FALSE] }
AttrNames == {"get_weather", "alias"}
Modules == UNION {[A -> Callables] : A \in SUBSET AttrNames}

McpRecords ==
    { [server_label |-> "search", server_url |-> "https://x"],
      [server_label |-> "docs", server_url |-> "https://x"],
      [server_label |-> "broken"],
      [server_url |-> "https://x"] }

SeqsUpTo(S, n) == UNION {[1..k -> S] : k \in 0..n}

(* lines 44-64: the tagged attributes of the executed module *)
load_tool_from_module_path(module) ==
    {module[a] : a \in {b \in DOMAIN module : module[b].tagged}}

(* faulty variant: the set replaced by the functions of the current module *)
Accumulate_Replace(func_tools, funcs) == funcs

(* line 32: func_tools = func_tools.union(funcs) *)
Accumulate(func_tools, funcs) == func_tools \cup funcs

(* lines 29-32: the loop over module_paths *)
RECURSIVE FuncTools(_, _)
FuncTools(modules, k) ==
    IF k = 0 THEN {}
    ELSE Accumulate(FuncTools(modules, k - 1),
                    load_tool_from_module_path(modules[k]))

(* line 34: FunctionTool(func_tools).  azure.ai.agents keys the functions  *)
(* of a FunctionTool by __name__ (a dict built by iterating the set), so   *)
(* of several callables with one name it keeps one, whichever the set's    *)
(* iteration yields last: any of them.                                     *)
FunctionTool(func_tools) ==
    {S \in SUBSET func_tools :
        \A f \in func_tools : Cardinality({g \in S : g.name = f.name}) = 1}

(* lines 74-77: McpTool(server_label=config[...], server_url=config[...]) *)
McpTool(config) ==
    [kind |-> "McpTool", server_label |-> config["server_label"],
     server_url |-> config["server_url"]]

(* lines 67-82: a record without one of the two keys raises KeyError at    *)
(* the subscript and is skipped.                                           *)
RECURSIVE McpToolsUpTo(_, _)
McpToolsUpTo(configs, k) ==
    IF k = 0 THEN <<>>
    ELSE IF "server_label" \in DOMAIN configs[k] /\ "server_url" \in DOMAIN configs[k]
         THEN Append(McpToolsUpTo(configs, k - 1), McpTool(configs[k]))
         ELSE McpToolsUpTo(configs, k - 1)

(* faulty variant: break instead of continue: the records after a malformed one  *)
(* are lost                                                                *)
RECURSIVE McpToolsUntilMalformed(_, _)
McpToolsUntilMalformed(configs, k) ==
    IF k > Len(configs) THEN <<>>
    ELSE IF "server_label" \in DOMAIN configs[k] /\ "server_url" \in DOMAIN configs[k]
         THEN <<McpTool(configs[k])>> \o McpToolsUntilMalformed(configs, k + 1)
         ELSE <<>>
load_tool_from_mcp_path_Break(configs) == McpToolsUntilMalformed(configs, 1)

load_tool_from_mcp_path(configs) == McpToolsUpTo(configs, Len(configs))

(* lines 36-39: the loop over mcp_paths, tool_set.add for each tool *)
RECURSIVE AddMcpTools(_, _, _)
AddMcpTools(tool_set, mcp, k) ==
    IF k = 0 THEN tool_set
    ELSE AddMcpTools(tool_set, mcp, k - 1) \o load_tool_from_mcp_path(mcp[k])

(* lines 17-41: load_tools *)
LoadTools ==
    /\ loader.pc = "start"
    /\ \/ /\ files.tool_dir = "None"
          /\ loader' = [pc |-> "returned", tool_set |-> <<>>, error |-> NoneVal]
       \/ /\ files.tool_dir = "missing"
          /\ loader' = [pc |-> "raised", tool_set |-> <<>>, error |-> "ValueError"]
       \/ /\ files.tool_dir = "present"
          /\ \E fns \in FunctionTool(FuncTools(files.modules, Len(files.modules))) :
               loader' = [pc |-> "returned",
                          tool_set |-> AddMcpTools(
                              <<[kind |-> "FunctionTool", functions |-> fns]>>,
                              files.mcp, Len(files.mcp)),
                          error |-> NoneVal]
    /\ UNCHANGED files

ScenarioModules == << ("get_weather" :> [oid |-> 1, name |-> "get_weather", tagged |-> TRUE]) >>
ScenarioMcp == << << [server_label |-> "search", server_url |-> "https://x"],
                     [server_label |-> "broken"] >> >>

InitLoad ==
    /\ loader = [pc |-> "start", tool_set |-> <<>>, error |-> NoneVal]
    /\ THREADS = <<>>
    /\ call = NoCall /\ prev = NoCall
    /\ remote = {} /\ created = 0 /\ messages = <<>> /\ deleted = 0
    /\ running = 0
    /\ pc = [h \in Turns |-> "idle"]
    /\ channel_id = [h \in Turns |-> NoneVal]
    /\ conversation_id = [h \in Turns |-> NoneVal]
    /\ text = [h \in Turns |-> <<>>]
    /\ thread_id = [h \in Turns |-> NoneVal]
    /\ thread = [h \in Turns |-> NoneVal]
    /\ run = [h \in Turns |-> NoRun]
    /\ response = [h \in Turns |-> Unbound]
    /\ error = [h \in Turns |-> NoneVal]
    /\ creates = [h \in Turns |-> 0]
    /\ sent = [h \in Turns |-> <<>>]

(* the directory varies in its modules *)
InitTools ==
    /\ InitLoad
    /\ \E d \in {"None", "missing", "present"}, ms \in SeqsUpTo(Modules, MaxModules) :
          /\ d # "present" => ms = <<>>
          /\ files = [tool_dir |-> d, modules |-> ms,
                      mcp |-> IF d = "present" THEN ScenarioMcp ELSE <<>>]

(* the directory varies in its configuration files *)
InitMcp ==
    /\ InitLoad
    /\ \E d \in {"None", "missing", "present"},
          js \in SeqsUpTo(SeqsUpTo(McpRecords, MaxRecords), MaxMcpFiles) :
          /\ d # "present" => js = <<>>
          /\ files = [tool_dir |-> d, mcp |-> js,
                      modules |-> IF d = "present" THEN ScenarioModules ELSE <<>>]

NextLoad == LoadTools /\ UNCHANGED <<THREADS, serveVars, driverVars>>

SpecTools == InitTools /\ [][NextLoad]_vars
SpecMcp == InitMcp /\ [][NextLoad]_vars

(* the entries of a tool set, by kind *)
FunctionEntries(tool_set) ==
    UNION {tool_set[i].functions :
              i \in {j \in 1..Len(tool_set) : tool_set[j].kind = "FunctionTool"}}
IsMcp(t) == t.kind = "McpTool"
McpEntries(tool_set) == SelectSeq(tool_set, IsMcp)

(* the names some loaded module binds to a tagged callable *)
TaggedNames ==
    {c.name : c \in {o \in Callables : o.tagged /\
        \E i \in 1..Len(files.modules) : \E a \in DOMAIN files.modules[i] :
            files.modules[i][a] = o}}

WellFormed(config) == {"server_label", "server_url"} \subseteq DOMAIN config
RECURSIVE Flatten(_)
Flatten(ss) == IF ss = <<>> THEN <<>> ELSE Head(ss) \o Flatten(Tail(ss))
AllRecords == Flatten(files.mcp)

(* C9: over a directory whose configuration files hold N records, M of     *)
(* them without server_label or server_url, load_tools raises nothing and  *)
(* the tool set holds exactly the N-M well-formed records as McpTool       *)
(* entries, in the order of their enumeration.                             *)
C9_MalformedRecordsDropped ==
    (loader.pc # "start" /\ files.tool_dir = "present") =>
        LET good == SelectSeq(AllRecords, WellFormed)
            got == McpEntries(loader.tool_set)
            M == Cardinality({i \in 1..Len(AllRecords) : ~WellFormed(AllRecords[i])})
        IN  /\ loader.pc = "returned" /\ loader.error = NoneVal
            /\ Len(got) = Len(AllRecords) - M
            /\ \A i \in 1..Len(got) :
                  /\ got[i].server_label = good[i].server_label
                  /\ got[i].server_url = good[i].server_url

C9_Witness ==
    /\ loader.pc = "returned"
    /\ Len(files.mcp) = 2
    /\ files.mcp[1] = << [server_label |-> "broken"],
                         [server_label |-> "docs", server_url |-> "https://x"] >>
    /\ files.mcp[2] = << [server_label |-> "search", server_url |-> "https://x"],
                         [server_url |-> "https://x"] >>
    /\ Len(McpEntries(loader.tool_set)) = 2
    /\ McpEntries(loader.tool_set)[1].server_label = "docs"

----------------------------------------------------------------------------
(* Vocabulary of the properties of on_message *)

(* sub occurs in s as a contiguous run of words *)
Contains(s, sub) ==
    \E i \in 0..(Len(s) - Len(sub)) : SubSeq(s, i + 1, i + Len(sub)) = sub

InBody == {"resolve", "fetch", "create", "register", "post", "run",
           "extract", "send"}
AfterResolution == {"post", "run", "extract", "send"}

(* the directory entry of the pair that invocation h handles *)
Stored(h) == IF /\ Normalize(channel_id[h]) \in DOMAIN THREADS
                /\ conversation_id[h] \in DOMAIN THREADS[Normalize(channel_id[h])]
             THEN THREADS[Normalize(channel_id[h])][conversation_id[h]]
             ELSE NoneVal

SamePair(g, h) ==
    /\ Normalize(channel_id[g]) = Normalize(channel_id[h])
    /\ conversation_id[g] = conversation_id[h]

(* an earlier on_message for the pair of h ran to its end and replied *)
PriorSuccess(h) ==
    \E g \in Turns : g # h /\ pc[g] = "done" /\ sent[g] # <<>> /\ SamePair(g, h)

(* the thread ids some directory entry refers to *)
Referenced == {THREADS[e[1]][e[2]] : e \in Entries}

(* C2: a handle call that found no directory entry for its pair (get      *)
(* returned None) makes exactly one create_thread call, and from the      *)
(* registration to the end of the call the directory holds exactly one    *)
(* entry for the pair, mapping to the thread the call just created.       *)
C2_CreateOnceOnUnseen ==
    \A h \in Turns :
        /\ creates[h] <= 1
        /\ (pc[h] = "create" /\ thread_id[h] = NoneVal) =>
              /\ Stored(h) = NoneVal
              /\ creates[h] = 0
        /\ (pc[h] \in AfterResolution /\ thread_id[h] = NoneVal) =>
              /\ creates[h] = 1
              /\ thread[h] = ThreadIdOf(created)
              /\ get_thread_id(channel_id[h], conversation_id[h]) = thread[h]
              /\ Cardinality({e \in Entries :
                    e = <<Normalize(channel_id[h]), conversation_id[h]>>}) = 1

C2_Witness ==
    \E h \in Turns :
        /\ pc[h] = "send" /\ thread_id[h] = NoneVal /\ channel_id[h] = NoneVal
        /\ creates[h] = 1 /\ Stored(h) = thread[h]

(* C3 as claimed: after a successful handle call for the pair, and while   *)
(* the thread its entry names still exists remotely, a later handle call   *)
(* for the pair never takes the create-thread path.                        *)
C3_ReuseWheneverThreadExists ==
    \A h \in Turns :
        (PriorSuccess(h) /\ Stored(h) # NoneVal /\ Stored(h) \in remote)
            => pc[h] \notin {"create", "register"}

(* C3 amended: a handle call whose pair has a directory entry looks that   *)
(* entry up and fetches it; when the fetch returns the thread, the call    *)
(* posts its message and runs on the stored thread id, creates no thread   *)
(* and leaves the directory unchanged.                                     *)
C3_ReuseWhenFetchSucceeds ==
    [][\A h \in Turns :
        /\ (pc[h] = "resolve" /\ pc'[h] # "resolve" /\ Stored(h) # NoneVal) =>
              pc'[h] = "fetch" /\ thread_id'[h] = Stored(h)
        /\ (pc[h] = "fetch" /\ pc'[h] = "post") =>
              /\ thread'[h] = Stored(h)
              /\ THREADS' = THREADS /\ created' = created /\ creates'[h] = 0
        /\ (pc[h] \in AfterResolution /\ creates[h] = 0) =>
              /\ THREADS' = THREADS /\ created' = created /\ creates'[h] = 0
              /\ (pc[h] = "post" /\ pc'[h] = "run") =>
                    messages'[Stored(h)] = Append(messages[Stored(h)],
                        [role |-> "user", content |-> text[h]])
      ]_vars

C3_Witness ==
    \E h \in Turns :
        /\ PriorSuccess(h) /\ channel_id[h] = NoneVal
        /\ pc[h] = "send" /\ creates[h] = 0 /\ thread[h] = Stored(h)

(* C4: when the run ends failed, on_message does not raise; its reply      *)
(* contains the run's last_error, and no step of the call from the run on  *)
(* changes the directory; no step at all removes a directory entry.        *)
C4_FailedRunReply ==
    /\ [](\A h \in Turns :
            (run[h].status = "failed" /\ pc[h] \in {"send", "awaiting"}) =>
                /\ error[h] = NoneVal
                /\ Contains(response[h], run[h].last_error)
                /\ pc[h] = "awaiting" => sent[h] = <<response[h]>>)
    /\ [][/\ Entries \subseteq Entries'
          /\ \A h \in Turns :
               /\ (pc[h] = "extract" /\ run[h].status = "failed") =>
                     pc'[h] \in {"extract", "send"}
               /\ (pc[h] \in {"run", "extract", "send"} /\ pc'[h] # pc[h]
                     /\ run'[h].status = "failed") => THREADS' = THREADS
       ]_vars

C4_Witness ==
    \E h \in Turns :
        /\ pc[h] = "awaiting" /\ run[h].status = "failed"
        /\ run[h].last_error = <<"rate", "limited">>
        /\ Contains(sent[h][1], <<"rate", "limited">>)
        /\ Cardinality(Entries) = 2

C6_AgentReplyOnlyWhenCompleted ==
    \A h \in Turns : pc[h] \in {"send", "awaiting"} =>
        /\ response[h] # <<>>
        /\ (thread[h] \in remote
              /\ LastMessageTextByRole(thread[h], "agent") # <<>>
              /\ response[h] = LastMessageTextByRole(thread[h], "agent")[1].content)
             => run[h].status = "completed"

(* C7 as claimed: no failure of a remote call (thread fetch, thread        *)
(* create, message post, run execution) leaves on_message.                 *)
C7_NoRemoteFailureEscapes ==
    \A h \in Turns : error[h] \notin {"HttpResponseError", "ServiceRequestError"}

(* C10 as claimed: resolve-then-create is not serialised: while one call   *)
(* has observed its pair as absent and has not yet registered a thread,    *)
(* the next message can be dispatched to on_message.                       *)
C10_SecondCallCanInterleave ==
    \A h1, h2 \in Turns :
        (/\ h2 = h1 + 1
         /\ pc[h1] \in {"create", "register"} /\ thread_id[h1] = NoneVal
         /\ pc[h2] = "idle")
        => ENABLED Begin(h2)

(* C10 amended: at most one on_message call is inside its body (between    *)
(* its dispatch and its final await) at a time, and a call that registers  *)
(* a thread overwrites exactly the entry it observed at its lookup: a      *)
(* thread is orphaned only by a call whose fetch of it failed.             *)
C10_ResolveCreateSerialized ==
    /\ [](Cardinality({h \in Turns : pc[h] \in InBody}) <= 1)
    /\ [][\A h \in Turns : (pc[h] = "register" /\ pc'[h] = "post") =>
              Stored(h) = thread_id[h]]_vars

(* a thread that exists remotely, received a message, and is referenced by *)
(* no directory entry, while the pair that used it has another thread      *)
C10_Witness ==
    \E t \in remote :
        /\ Len(messages[t]) > 0
        /\ t \notin Referenced
        /\ \A h \in Turns : pc[h] \in {"done", "raised"}
        /\ Cardinality(Entries) = 1

====
